---- MODULE Spec2Model ----
(***************************************************************************)
(* Social-graph consistency protocol of sportconnectMobile: the follow and *)
(* like toggles (Firestore transactions) and the other writers of user and *)
(* post documents (sign-up, settings save, post creation), over a shared   *)
(* document store with optimistic, version-checked transactions.           *)
(***************************************************************************)
EXTENDS Integers, Sequences, FiniteSets, TLC

(* ---------------------------------------------------------------- bounds *)
NumUsers == 2
NumPosts == 1
MaxOps == 3
ContendOps == 1
MaxLen == 2

(* Attempts runTransaction makes before it rejects: the call sites pass no  *)
(* options, so the SDK default of five attempts applies.                    *)
MaxAttempts == 5

(* Fewest concurrent likers of one post that can use up one liker's attempts *)
NumLikers == MaxAttempts + 1

VARIABLES
    auth,                \* per user id: "none", "pending" (signUp in flight), "in"
    users,               \* the users collection: id -> document
    posts,               \* the posts collection: id -> document
    tx,                  \* per user: the toggle transaction in flight
    result,              \* per user: how the last toggle ended
    save,                \* per user: position inside handleSave
    currentUserProfile,  \* per user: following array held by UserProfileScreen
    currentPost,         \* per user and post: the likes the PostCard holds, and the
                         \* document version its listener delivered last
    budget,              \* user inputs (posts, toggles, saves, typing) still to come
    saves,               \* settings saves that may be started on top of budget
    comments,            \* per post id: the documents of its comments subcollection
    cm,                  \* per user: the addComment call in flight
    newComment,          \* per user: the text held by the comment input
    settings,            \* per user: sportRatings and locationEnabled of SettingsScreen
    home                 \* HomeScreen of one viewer: its state and its pending calls

vars == <<auth, users, posts, tx, result, save, currentUserProfile, currentPost,
          budget, saves, comments, cm, newComment, settings, home>>

Users == DOMAIN users
PostIds == DOMAIN posts

(* ------------------------------------------------------------- documents *)
RECURSIVE Without(_, _)
(* Array.prototype.filter(id => id !== x) *)
Without(s, x) ==
    IF s = <<>> THEN <<>>
    ELSE IF Head(s) = x THEN Without(Tail(s), x)
         ELSE <<Head(s)>> \o Without(Tail(s), x)

(* Array.prototype.includes *)
Includes(s, x) == \E i \in 1..Len(s) : s[i] = x

Elems(s) == {s[i] : i \in 1..Len(s)}

(* location: null or undefined. A stored location is modelled by its       *)
(* position in km along one meridian.                                       *)
NoLocation == -1

(* userSportRatings: undefined (the post carries no snapshot of its author). *)
(* A ratings object is the set of its <<key, value>> entries.               *)
NoSnapshot == {<<"undefined", 0>>}

(* A user document that does not exist: snap.exists() is false, data is {} *)
NoUser == [exists |-> FALSE, ver |-> 0, followers |-> <<>>, following |-> <<>>,
           likedPosts |-> <<>>, followersCount |-> 0, followingCount |-> 0,
           location |-> NoLocation, sportRatings |-> {}]

(* A post document that does not exist *)
NoPost == [exists |-> FALSE, ver |-> 0, userId |-> 0, likes |-> <<>>,
           likeCount |-> 0, commentCount |-> 0,
           userLocation |-> NoLocation, userSportRatings |-> NoSnapshot]

(* The document written by signUp's setDoc, by the lazy creation inside the *)
(* toggles and by the settings fallback: empty sets, zero counts.           *)
DefaultUser(v) == [exists |-> TRUE, ver |-> v, followers |-> <<>>, following |-> <<>>,
                   likedPosts |-> <<>>, followersCount |-> 0, followingCount |-> 0,
                   location |-> NoLocation, sportRatings |-> {}]

(* The document written by createPost *)
NewPost(userId) == [exists |-> TRUE, ver |-> 1, userId |-> userId, likes |-> <<>>,
                    likeCount |-> 0, commentCount |-> 0,
                    userLocation |-> NoLocation, userSportRatings |-> NoSnapshot]

NoTx == [kind |-> "none", target |-> 0, pc |-> "idle", attempt |-> 0, shown |-> FALSE,
         snapA |-> NoUser, snapP |-> NoPost, snapB |-> NoUser]

NoResult == [kind |-> "none", target |-> 0, out |-> "none", shown |-> FALSE]

Outcome(t, out) == [kind |-> t.kind, target |-> t.target, out |-> out, shown |-> t.shown]

Authed(a) == auth[a] # "none"

(* A PostCard whose listener has delivered the post document as stored:    *)
(* useState(post), then setCurrentPost(updatedPost)                         *)
Card(post) == [likes |-> post.likes, seen |-> post.ver]

(* addComment not running: addingComment is false *)
NoCm == [pc |-> "idle", target |-> 0, attempt |-> 0, snapP |-> NoPost, out |-> "none"]

(* SettingsScreen as mounted: no ratings entered, location switched off *)
NoSettings == [sportRatings |-> {}, locationEnabled |-> FALSE]

(* HomeScreen's currentUserProfile before the user document has been seen *)
NoProfile == [location |-> NoLocation, sportRatings |-> {}]

(* HomeScreen as mounted: useState([]) for the three lists, {} for the      *)
(* profile, and no generateRecommendations call awaiting its getDocs.       *)
NoHome(uid) == [uid |-> uid, currentUserProfile |-> NoProfile, recentPosts |-> <<>>,
                posts |-> <<>>, recommendedPosts |-> <<>>, calls |-> <<>>,
                via |-> "none",
                from |-> [recentPosts |-> <<>>, currentUserProfile |-> NoProfile,
                          users |-> <<>>]]

Init ==
    /\ auth = [u \in 1..NumUsers |-> "none"]
    /\ users = [u \in 1..NumUsers |-> NoUser]
    /\ posts = [p \in 1..NumPosts |-> NoPost]
    /\ tx = [u \in 1..NumUsers |-> NoTx]
    /\ result = [u \in 1..NumUsers |-> NoResult]
    /\ save = [u \in 1..NumUsers |-> "idle"]
    /\ currentUserProfile = [u \in 1..NumUsers |-> <<>>]
    /\ currentPost = [u \in 1..NumUsers |-> [p \in 1..NumPosts |-> Card(NoPost)]]
    /\ budget = MaxOps
    /\ saves = 0
    /\ comments = [p \in 1..NumPosts |-> <<>>]
    /\ cm = [u \in 1..NumUsers |-> NoCm]
    /\ newComment = [u \in 1..NumUsers |-> <<>>]
    /\ settings = [u \in 1..NumUsers |-> NoSettings]
    /\ home = NoHome(1)

(* ----------------------------------------------------------------- signUp *)
(* createUserWithEmailAndPassword: the account exists and the auth listener *)
(* signs the user in; the user document is not written yet.                 *)
SignUpCreate(a) ==
    /\ auth[a] = "none"
    /\ auth' = [auth EXCEPT ![a] = "pending"]
    /\ UNCHANGED <<users, posts, tx, result, save, currentUserProfile, currentPost,
                   budget, saves,
                   comments, cm, newComment, settings, home>>

(* setDoc of the user document: replaces whatever is stored under the id.   *)
(* A signUp whose setDoc is rejected stays at "pending" for good.           *)
SignUpSetDoc(a) ==
    /\ auth[a] = "pending"
    /\ auth' = [auth EXCEPT ![a] = "in"]
    /\ users' = [users EXCEPT ![a] = DefaultUser(users[a].ver + 1)]
    /\ UNCHANGED <<posts, tx, result, save, currentUserProfile, currentPost,
                   budget, saves,
                   comments, cm, newComment, settings, home>>

(* ------------------------------------------------------------- createPost *)
NextPostId == CHOOSE p \in PostIds : /\ ~posts[p].exists
                                     /\ \A q \in PostIds : q < p => posts[q].exists

createPost(a) ==
    /\ Authed(a)
    /\ \E p \in PostIds : ~posts[p].exists
    /\ budget > 0
    /\ budget' = budget - 1
    /\ posts' = [posts EXCEPT ![NextPostId] = NewPost(a)]
    /\ UNCHANGED <<auth, users, tx, result, save, currentUserProfile, currentPost, saves,
                   comments, cm, newComment, settings, home>>

(* ---------------------------------------------------------- handleFollow *)
(* Variant: the viewer's own profile is opened like any other, with the     *)
(* follow button on it.                                                     *)
NavTargetsWithSelf(a) ==
    {t \in Users :
        \/ \E p \in PostIds : posts[p].exists /\ posts[p].userId = t
        \/ /\ users[t].exists
           /\ \E v \in Users : Includes(users[v].followers, t) \/ Includes(users[v].following, t)}

(* Users whose profile screen the viewer can open: authors of stored posts  *)
(* (PostCard.handleUserPress) and stored members of a follow list           *)
(* (FollowListScreen.handleUserPress); both route the viewer's own id to    *)
(* the Profile tab, and the follow button is hidden on one's own profile.   *)
NavTargets(a) ==
    {t \in Users \ {a} :
        \/ \E p \in PostIds : posts[p].exists /\ posts[p].userId = t
        \/ /\ users[t].exists
           /\ \E v \in Users : Includes(users[v].followers, t) \/ Includes(users[v].following, t)}

(* What the follow button shows: currentUserProfile?.following.includes     *)
isFollowing(uid, userId) == Includes(currentUserProfile[uid], userId)

(* Variant: the decision is taken from the profile the screen holds.        *)
isCurrentlyFollowingShown(uid, userId, currentFollowing) == isFollowing(uid, userId)

isCurrentlyFollowing(uid, userId, currentFollowing) == Includes(currentFollowing, userId)

newCurrentFollowing(uid, userId, currentFollowing) ==
    IF isCurrentlyFollowing(uid, userId, currentFollowing)
    THEN Without(currentFollowing, userId)
    ELSE Append(currentFollowing, userId)

newTargetFollowers(uid, userId, currentFollowing, targetFollowers) ==
    IF isCurrentlyFollowing(uid, userId, currentFollowing)
    THEN Without(targetFollowers, uid)
    ELSE Append(targetFollowers, uid)

(* Variant: the existence check on the target snapshot is left out.         *)
targetUserSnapUnchecked(targetUserSnap) == TRUE

targetUserSnapExists(targetUserSnap) == targetUserSnap.exists

(* Variant: the commit also rewrites every other user document.            *)
FollowWritesTouchAll(us, uid, userId, currentUserSnap, targetUserSnap) ==
    LET nf == newCurrentFollowing(uid, userId, currentUserSnap.following)
        nt == newTargetFollowers(uid, userId, currentUserSnap.following,
                                 targetUserSnap.followers)
    IN [u \in DOMAIN us |->
          IF u = uid THEN [us[u] EXCEPT !.ver = @ + 1, !.following = nf,
                                        !.followingCount = Len(nf)]
          ELSE IF u = userId THEN [us[u] EXCEPT !.ver = @ + 1, !.followers = nt,
                                                !.followersCount = Len(nt)]
          ELSE [us[u] EXCEPT !.ver = @ + 1]]

(* The writes of one run of the update function, from the documents it read *)
(* (currentUserSnap, targetUserSnap): tx.update of an existing actor        *)
(* document or tx.set of a fresh one, and tx.update of the target.          *)
FollowWrites(us, uid, userId, currentUserSnap, targetUserSnap) ==
    LET nf == newCurrentFollowing(uid, userId, currentUserSnap.following)
        nt == newTargetFollowers(uid, userId, currentUserSnap.following,
                                 targetUserSnap.followers)
    IN [us EXCEPT
          ![uid] = IF currentUserSnap.exists
                   THEN [@ EXCEPT !.ver = @ + 1, !.following = nf,
                                  !.followingCount = Len(nf)]
                   ELSE [DefaultUser(@.ver + 1) EXCEPT !.following = nf,
                                                       !.followingCount = Len(nf)],
          ![userId] = [@ EXCEPT !.ver = @ + 1, !.followers = nt,
                                !.followersCount = Len(nt)]]

(* The follow button is pressed: followLoading guards re-entry.             *)
handleFollow(a, t) ==
    /\ Authed(a)
    /\ t \in NavTargets(a)
    /\ tx[a].pc = "idle"
    /\ budget > 0
    /\ budget' = budget - 1
    /\ tx' = [tx EXCEPT ![a] = [NoTx EXCEPT !.kind = "follow", !.target = t,
                                   !.pc = "get1", !.attempt = 1,
                                   !.shown = isFollowing(a, t)]]
    /\ result' = [result EXCEPT ![a] = NoResult]
    /\ UNCHANGED <<auth, users, posts, save, currentUserProfile, currentPost, saves,
                   comments, cm, newComment, settings, home>>

(* tx.get(currentUserRef) *)
FollowGetCurrent(a) ==
    /\ tx[a].kind = "follow" /\ tx[a].pc = "get1"
    /\ tx' = [tx EXCEPT ![a].snapA = users[a], ![a].pc = "get2"]
    /\ UNCHANGED <<auth, users, posts, result, save, currentUserProfile, currentPost,
                   budget, saves,
                   comments, cm, newComment, settings, home>>

(* tx.get(targetUserRef); a missing target throws out of the update         *)
(* function, which runTransaction does not retry.                           *)
FollowGetTarget(a) ==
    /\ tx[a].kind = "follow" /\ tx[a].pc = "get2"
    /\ IF targetUserSnapExists(users[tx[a].target])
       THEN /\ tx' = [tx EXCEPT ![a].snapB = users[tx[a].target], ![a].pc = "commit"]
            /\ UNCHANGED result
       ELSE /\ tx' = [tx EXCEPT ![a] = NoTx]
            /\ result' = [result EXCEPT ![a] = Outcome(tx[a], "notfound")]
    /\ UNCHANGED <<auth, users, posts, save, currentUserProfile, currentPost,
                   budget, saves,
                   comments, cm, newComment, settings, home>>

(* Variant: the attempt is run again without being counted.                 *)
RetryUncounted(t) == [NoTx EXCEPT !.kind = t.kind, !.target = t.target, !.pc = "get1",
                                  !.attempt = t.attempt, !.shown = t.shown]

(* A further attempt is made while fewer than MaxAttempts have been used.   *)
Retry(t) == [NoTx EXCEPT !.kind = t.kind, !.target = t.target, !.pc = "get1",
                         !.attempt = t.attempt + 1, !.shown = t.shown]

(* Commit of the attempt: every document read must still be at the version  *)
(* read; otherwise the attempt is discarded whole and the transaction is    *)
(* run again until the attempts are used up, when it rejects.               *)
FollowCommit(a) ==
    LET t == tx[a].target IN
    /\ tx[a].kind = "follow" /\ tx[a].pc = "commit"
    /\ IF users[a].ver = tx[a].snapA.ver /\ users[t].ver = tx[a].snapB.ver
       THEN /\ users' = FollowWrites(users, a, t, tx[a].snapA, tx[a].snapB)
            /\ tx' = [tx EXCEPT ![a] = NoTx]
            /\ result' = [result EXCEPT ![a] = Outcome(tx[a], "ok")]
       ELSE /\ UNCHANGED users
            /\ IF tx[a].attempt < MaxAttempts
               THEN /\ tx' = [tx EXCEPT ![a] = Retry(tx[a])]
                    /\ UNCHANGED result
               ELSE /\ tx' = [tx EXCEPT ![a] = NoTx]
                    /\ result' = [result EXCEPT ![a] = Outcome(tx[a], "conflict")]
    /\ UNCHANGED <<auth, posts, save, currentUserProfile, currentPost, budget, saves,
                   comments, cm, newComment, settings, home>>

(* ------------------------------------------------------------ toggleLike *)
(* What the heart shows: (currentPost.likes || []).includes(user.uid)       *)
liked(uid, postId) == Includes(currentPost[uid][postId].likes, uid)

isCurrentlyLiked(uid, postId, currentLikes) == Includes(currentLikes, uid)

(* Variant: the new array is built from the likes the card holds.           *)
newLikesFromCard(uid, postId, currentLikes) ==
    IF liked(uid, postId)
    THEN Without(currentPost[uid][postId].likes, uid)
    ELSE Append(currentPost[uid][postId].likes, uid)

newLikes(uid, postId, currentLikes) ==
    IF isCurrentlyLiked(uid, postId, currentLikes)
    THEN Without(currentLikes, uid)
    ELSE Append(currentLikes, uid)

newUserLikedPosts(uid, postId, currentLikes, userLikedPosts) ==
    IF isCurrentlyLiked(uid, postId, currentLikes)
    THEN Without(userLikedPosts, postId)
    ELSE Append(userLikedPosts, postId)

(* Variant: the count is taken from the array before the change.            *)
likeCountOfBefore(currentLikes, likes) == Len(currentLikes)

likeCountOf(currentLikes, likes) == Len(likes)

(* Variant: the existence check on the post snapshot is left out.           *)
postSnapUnchecked(postSnap) == TRUE

postSnapExists(postSnap) == postSnap.exists

(* tx.update(postRef, {likes, likeCount}) *)
LikeWritePost(ps, uid, postId, postSnap) ==
    LET nl == newLikes(uid, postId, postSnap.likes) IN
    [ps EXCEPT ![postId] = [@ EXCEPT !.ver = @ + 1, !.likes = nl,
                                     !.likeCount = likeCountOf(postSnap.likes, nl)]]

(* Variant: the user document is only ever updated, never set.              *)
LikeWriteUserUpdateOnly(us, uid, postId, postSnap, userSnap) ==
    LET nl == newUserLikedPosts(uid, postId, postSnap.likes, userSnap.likedPosts) IN
    [us EXCEPT ![uid] = [@ EXCEPT !.ver = @ + 1, !.likedPosts = nl]]

(* tx.update(userRef, {likedPosts}) or tx.set of a fresh user document      *)
LikeWriteUser(us, uid, postId, postSnap, userSnap) ==
    LET nl == newUserLikedPosts(uid, postId, postSnap.likes, userSnap.likedPosts) IN
    [us EXCEPT ![uid] = IF userSnap.exists
                        THEN [@ EXCEPT !.ver = @ + 1, !.likedPosts = nl]
                        ELSE [DefaultUser(@.ver + 1) EXCEPT !.likedPosts = nl]]

(* The heart of a PostCard is pressed: likeLoading guards re-entry. The     *)
(* card's post prop may name a document that is not in the shared store.    *)
toggleLike(a, p) ==
    /\ Authed(a)
    /\ tx[a].pc = "idle"
    /\ budget > 0
    /\ budget' = budget - 1
    /\ tx' = [tx EXCEPT ![a] = [NoTx EXCEPT !.kind = "like", !.target = p,
                                   !.pc = "get1", !.attempt = 1,
                                   !.shown = liked(a, p)]]
    /\ result' = [result EXCEPT ![a] = NoResult]
    /\ UNCHANGED <<auth, users, posts, save, currentUserProfile, currentPost, saves,
                   comments, cm, newComment, settings, home>>

(* tx.get(postRef) *)
LikeGetPost(a) ==
    /\ tx[a].kind = "like" /\ tx[a].pc = "get1"
    /\ tx' = [tx EXCEPT ![a].snapP = posts[tx[a].target], ![a].pc = "get2"]
    /\ UNCHANGED <<auth, users, posts, result, save, currentUserProfile, currentPost,
                   budget, saves,
                   comments, cm, newComment, settings, home>>

(* tx.get(userRef), then the existence check on the post snapshot, which    *)
(* throws out of the update function.                                       *)
LikeGetUser(a) ==
    /\ tx[a].kind = "like" /\ tx[a].pc = "get2"
    /\ IF postSnapExists(tx[a].snapP)
       THEN /\ tx' = [tx EXCEPT ![a].snapA = users[a], ![a].pc = "commit"]
            /\ UNCHANGED result
       ELSE /\ tx' = [tx EXCEPT ![a] = NoTx]
            /\ result' = [result EXCEPT ![a] = Outcome(tx[a], "notfound")]
    /\ UNCHANGED <<auth, users, posts, save, currentUserProfile, currentPost,
                   budget, saves,
                   comments, cm, newComment, settings, home>>

LikeCommit(a) ==
    LET p == tx[a].target IN
    /\ tx[a].kind = "like" /\ tx[a].pc = "commit"
    /\ IF posts[p].ver = tx[a].snapP.ver /\ users[a].ver = tx[a].snapA.ver
       THEN /\ posts' = LikeWritePost(posts, a, p, tx[a].snapP)
            /\ users' = LikeWriteUser(users, a, p, tx[a].snapP, tx[a].snapA)
            /\ tx' = [tx EXCEPT ![a] = NoTx]
            /\ result' = [result EXCEPT ![a] = Outcome(tx[a], "ok")]
       ELSE /\ UNCHANGED <<users, posts>>
            /\ IF tx[a].attempt < MaxAttempts
               THEN /\ tx' = [tx EXCEPT ![a] = Retry(tx[a])]
                    /\ UNCHANGED result
               ELSE /\ tx' = [tx EXCEPT ![a] = NoTx]
                    /\ result' = [result EXCEPT ![a] = Outcome(tx[a], "conflict")]
    /\ UNCHANGED <<auth, save, currentUserProfile, currentPost, budget, saves,
                   comments, cm, newComment, settings, home>>

(* ------------------------------------------------------------- addComment *)
Chars == {" ", "a"}

(* The texts the comment input can hold *)
Texts == UNION {[1..n -> Chars] : n \in 0..MaxLen}

IsSpace(c) == c = " "

RECURSIVE TrimStart(_)
TrimStart(s) == IF s # <<>> /\ IsSpace(Head(s)) THEN TrimStart(Tail(s)) ELSE s

RECURSIVE TrimEnd(_)
TrimEnd(s) ==
    IF s # <<>> /\ IsSpace(s[Len(s)]) THEN TrimEnd(SubSeq(s, 1, Len(s) - 1)) ELSE s

(* String.prototype.trim *)
Trim(s) == TrimEnd(TrimStart(s))

(* text: newComment.trim() *)
commentText(text) == Trim(text)

(* Variant: the guard looks at the text as typed.                           *)
hasNewCommentRaw(text) == text # <<>>

(* !newComment.trim() is false *)
hasNewComment(text) == Trim(text) # <<>>

(* onChangeText of the comment input *)
setNewComment(a, text) ==
    /\ Authed(a)
    /\ newComment[a] # text
    /\ budget > 0
    /\ budget' = budget - 1
    /\ newComment' = [newComment EXCEPT ![a] = text]
    /\ UNCHANGED <<auth, users, posts, tx, result, save, currentUserProfile, currentPost,
                   saves, comments, cm, settings, home>>

(* The send button of a card's comment box: the guards, then addDoc of the  *)
(* comment under the card's post id, whether or not that post is stored.    *)
addComment(a, p) ==
    /\ Authed(a)
    /\ hasNewComment(newComment[a])
    /\ cm[a].pc = "idle"
    /\ budget > 0
    /\ budget' = budget - 1
    /\ comments' = [comments EXCEPT ![p] =
                       Append(@, [text |-> commentText(newComment[a]), userId |-> a])]
    /\ cm' = [cm EXCEPT ![a] = [NoCm EXCEPT !.pc = "get1", !.target = p, !.attempt = 1]]
    /\ UNCHANGED <<auth, users, posts, tx, result, save, currentUserProfile, currentPost,
                   saves, newComment, settings, home>>

(* tx.get(postRef). For a missing post the update function writes nothing,  *)
(* the empty transaction commits, and addComment finishes as for a success. *)
CommentGetPost(a) ==
    /\ cm[a].pc = "get1"
    /\ IF posts[cm[a].target].exists
       THEN /\ cm' = [cm EXCEPT ![a].snapP = posts[cm[a].target], ![a].pc = "commit"]
            /\ UNCHANGED newComment
       ELSE /\ cm' = [cm EXCEPT ![a] = [NoCm EXCEPT !.target = cm[a].target, !.out = "ok"]]
            /\ newComment' = [newComment EXCEPT ![a] = <<>>]
    /\ UNCHANGED <<auth, users, posts, tx, result, save, currentUserProfile, currentPost,
                   budget, saves, comments, settings, home>>

(* Variant: the commit does not verify the document it read.                *)
CommentReadsUnchecked(a) == TRUE

(* The post is still at the version the attempt read.                       *)
CommentReadsCurrent(a) == posts[cm[a].target].ver = cm[a].snapP.ver

(* tx.update(postRef, {commentCount: currentCount + 1}) and the commit;     *)
(* a rejected transaction leaves the comment stored and the input as typed. *)
CommentCommit(a) ==
    LET p == cm[a].target IN
    /\ cm[a].pc = "commit"
    /\ IF CommentReadsCurrent(a)
       THEN /\ posts' = [posts EXCEPT ![p].ver = @ + 1,
                                      ![p].commentCount = cm[a].snapP.commentCount + 1]
            /\ cm' = [cm EXCEPT ![a] = [NoCm EXCEPT !.target = p, !.out = "ok"]]
            /\ newComment' = [newComment EXCEPT ![a] = <<>>]
       ELSE /\ UNCHANGED <<posts, newComment>>
            /\ IF cm[a].attempt < MaxAttempts
               THEN cm' = [cm EXCEPT ![a] = [NoCm EXCEPT !.pc = "get1", !.target = p,
                                                         !.attempt = cm[a].attempt + 1]]
               ELSE cm' = [cm EXCEPT ![a] = [NoCm EXCEPT !.target = p, !.out = "conflict"]]
    /\ UNCHANGED <<auth, users, tx, result, save, currentUserProfile, currentPost,
                   budget, saves, comments, settings, home>>

(* ------------------------------------------------------------- handleSave *)
(* A ratings object is the set of its <<key, value>> entries.               *)
HasKey(ratings, k) == \E e \in ratings : e[1] = k

Lookup(ratings, k) == (CHOOSE e \in ratings : e[1] = k)[2]

(* The document after {bio, sportRatings, location} of the form is written  *)
(* over it: location is the one held under sportRatings.location when the   *)
(* switch is on, null when it is off, and left alone otherwise.             *)
updateData(d, form) ==
    [d EXCEPT !.ver = @ + 1,
              !.sportRatings = form.sportRatings,
              !.location = IF form.locationEnabled /\ HasKey(form.sportRatings, "location")
                           THEN Lookup(form.sportRatings, "location")
                           ELSE IF ~form.locationEnabled THEN NoLocation ELSE @]

(* onSnapshot of the user document in SettingsScreen: the form takes the    *)
(* stored ratings, and the switch goes on when a location is stored.        *)
SettingsSnapshot(a) ==
    LET form == [sportRatings |-> users[a].sportRatings,
                 locationEnabled |-> IF users[a].location # NoLocation THEN TRUE
                                     ELSE settings[a].locationEnabled]
    IN
    /\ Authed(a)
    /\ users[a].exists
    /\ settings[a] # form
    /\ settings' = [settings EXCEPT ![a] = form]
    /\ UNCHANGED <<auth, users, posts, tx, result, save, currentUserProfile, currentPost,
                   budget, saves, comments, cm, newComment, home>>

(* The values typed into a rating field: "" and a number *)
RatingInputs == {"", "3"}

(* parseFloat of the values of RatingInputs *)
parseFloat(value) == IF value = "3" THEN 3 ELSE -1

(* A rating field is edited: a number not below 0 is put under the sport,   *)
(* the empty text removes the sport from the ratings.                       *)
handleSportRatingChange(a, sport, value) ==
    LET prev == settings[a].sportRatings
        rest == {e \in prev : e[1] # sport}
        next == IF parseFloat(value) >= 0 THEN rest \cup {<<sport, parseFloat(value)>>}
                ELSE IF value = "" THEN rest ELSE prev
    IN
    /\ Authed(a)
    /\ next # prev
    /\ budget > 0
    /\ budget' = budget - 1
    /\ settings' = [settings EXCEPT ![a].sportRatings = next]
    /\ UNCHANGED <<auth, users, posts, tx, result, save, currentUserProfile, currentPost,
                   saves, comments, cm, newComment, home>>

(* updateDoc(userDocRef, {bio, sportRatings, location}): touches none of    *)
(* the follow or like fields; rejects with not-found on a missing document. *)
handleSave(a) ==
    /\ Authed(a)
    /\ save[a] = "idle"
    /\ IF saves > 0
       THEN saves' = saves - 1 /\ UNCHANGED budget
       ELSE budget > 0 /\ budget' = budget - 1 /\ UNCHANGED saves
    /\ IF users[a].exists
       THEN /\ users' = [users EXCEPT ![a] = updateData(@, settings[a])]
            /\ UNCHANGED save
       ELSE /\ save' = [save EXCEPT ![a] = "fallback"]
            /\ UNCHANGED users
    /\ UNCHANGED <<auth, posts, tx, result, currentUserProfile, currentPost,
                   comments, cm, newComment, settings, home>>

(* The not-found fallback: setDoc of a fresh document with empty sets.      *)
SaveSetDoc(a) ==
    /\ save[a] = "fallback"
    /\ users' = [users EXCEPT ![a] = updateData(DefaultUser(users[a].ver), settings[a])]
    /\ save' = [save EXCEPT ![a] = "idle"]
    /\ UNCHANGED <<auth, posts, tx, result, currentUserProfile, currentPost,
                   budget, saves,
                   comments, cm, newComment, settings, home>>

(* ------------------------------------------------------------- HomeScreen *)
(* Scores are held in units of 1/Scale, so that the average over the common *)
(* sports and the weights 0.7 and 0.3 stay whole numbers.                   *)
Scale == 60

(* distance: no distance could be computed *)
Infinity == -1

(* score: the post carries no score (it never went through the ranking) *)
NoScore == -1

(* The sports of calculateSportRatingDifference that the model rates *)
Sports == {"tennis", "golf"}

(* ratings[sport], with undefined read as 0: both are falsy *)
Rating(ratings, sport) == IF HasKey(ratings, sport) THEN Lookup(ratings, sport) ELSE 0

(* Haversine distance of two places on one meridian: the length of the arc  *)
calculateDistance(lat1, lat2) == IF lat1 >= lat2 THEN lat1 - lat2 ELSE lat2 - lat1

RECURSIVE SumDiff(_, _, _)
SumDiff(sports, userRatings, postUserRatings) ==
    IF sports = {} THEN 0
    ELSE LET sport == CHOOSE x \in sports : TRUE
         IN calculateDistance(Rating(userRatings, sport), Rating(postUserRatings, sport))
               + SumDiff(sports \ {sport}, userRatings, postUserRatings)

(* totalDiff and commonSports of the loop; commonSports 0 is the Infinity   *)
(* the function returns, also for missing ratings objects.                  *)
calculateSportRatingDifference(userRatings, postUserRatings) ==
    LET common == {sport \in Sports : /\ Rating(userRatings, sport) # 0
                                      /\ Rating(postUserRatings, sport) # 0}
    IN [totalDiff |-> SumDiff(common, userRatings, postUserRatings),
        commonSports |-> Cardinality(common)]

(* post.userLocation || postUser?.location *)
postUserLocation(post, us) ==
    IF post.userLocation # NoLocation THEN post.userLocation
    ELSE IF post.userId \in DOMAIN us /\ us[post.userId].exists
         THEN us[post.userId].location
         ELSE NoLocation

(* post.userSportRatings || postUser?.sportRatings *)
postUserSportRatings(post, us) ==
    IF post.userSportRatings # NoSnapshot THEN post.userSportRatings
    ELSE IF post.userId \in DOMAIN us /\ us[post.userId].exists
         THEN us[post.userId].sportRatings
         ELSE {}

(* Variant: a viewer without a location is taken to be at the origin.       *)
distanceFromOrigin(profile, post, us) ==
    IF postUserLocation(post, us) # NoLocation
    THEN calculateDistance(IF profile.location = NoLocation THEN 0 ELSE profile.location,
                           postUserLocation(post, us))
    ELSE Infinity

distance(profile, post, us) ==
    IF profile.location # NoLocation /\ postUserLocation(post, us) # NoLocation
    THEN calculateDistance(profile.location, postUserLocation(post, us))
    ELSE Infinity

(* Variant: the last piece grows without its cap.                           *)
locationScoreUncapped(d) ==
    IF d = Infinity THEN 1000 * Scale
    ELSE IF d <= 10 THEN d * 10 * Scale
    ELSE IF d <= 50 THEN (100 + (d - 10) * 5) * Scale
    ELSE IF d <= 200 THEN (300 + (d - 50) * 2) * Scale
    ELSE (600 + (d - 200)) * Scale

locationScore(d) ==
    IF d = Infinity THEN 1000 * Scale
    ELSE IF d <= 10 THEN d * 10 * Scale
    ELSE IF d <= 50 THEN (100 + (d - 10) * 5) * Scale
    ELSE IF d <= 200 THEN (300 + (d - 50) * 2) * Scale
    ELSE (600 + (IF d - 200 <= 400 THEN d - 200 ELSE 400)) * Scale

ratingScore(ratingDifference) ==
    IF ratingDifference.commonSports = 0 THEN 100 * Scale
    ELSE (ratingDifference.totalDiff * 10 * Scale) \div ratingDifference.commonSports

totalScore(location, rating) == (location * 7 + rating * 3) \div 10

(* The score of one candidate post *)
scoreOf(profile, post, us) ==
    totalScore(locationScore(distance(profile, post, us)),
               ratingScore(calculateSportRatingDifference(
                              profile.sportRatings, postUserSportRatings(post, us))))

(* Variant: own posts stay in the list.                                     *)
excludeOwnSkipped(list, uid) == list

(* .filter(post => post.userId !== user?.uid) *)
excludeOwn(list, uid) == SelectSeq(list, LAMBDA post : post.userId # uid)

(* A post as the feed holds it: without a score unless it was ranked *)
FeedPost(post, score) ==
    [id |-> post.id, userId |-> post.userId, likes |-> post.likes, score |-> score]

unranked(list) == [i \in 1..Len(list) |-> FeedPost(list[i], NoScore)]

RECURSIVE insertTiesFirst(_, _)
(* Variant: a post is put in front of the posts it ties with.               *)
insertTiesFirst(e, sorted) ==
    IF sorted = <<>> \/ e.score <= Head(sorted).score THEN <<e>> \o sorted
    ELSE <<Head(sorted)>> \o insertTiesFirst(e, Tail(sorted))

RECURSIVE insert(_, _)
(* e goes behind every post whose score is not greater than its own *)
insert(e, sorted) ==
    IF sorted = <<>> \/ e.score < Head(sorted).score THEN <<e>> \o sorted
    ELSE <<Head(sorted)>> \o insert(e, Tail(sorted))

RECURSIVE sort(_)
(* Array.prototype.sort((a, b) => (a.score || 0) - (b.score || 0)): stable  *)
sort(list) ==
    IF list = <<>> THEN <<>>
    ELSE insert(list[Len(list)], sort(SubSeq(list, 1, Len(list) - 1)))

(* Variant: the scored posts are left in the order of the query.            *)
scoredPostsUnsorted(recentPosts, profile, uid, us) ==
    LET own == excludeOwn(recentPosts, uid)
    IN [i \in 1..Len(own) |-> FeedPost(own[i], scoreOf(profile, own[i], us))]

(* scoredPosts of generateRecommendations *)
scoredPosts(recentPosts, profile, uid, us) ==
    LET own == excludeOwn(recentPosts, uid)
    IN sort([i \in 1..Len(own) |-> FeedPost(own[i], scoreOf(profile, own[i], us))])

(* Variant: the catch block leaves the list as it is.                       *)
caughtPostsKept(h, call) == h.posts

(* The catch block: setPosts(recentPosts.filter(...)) *)
caughtPosts(h, call) == unranked(excludeOwn(call.recentPosts, h.uid))

RECURSIVE RecentFirst(_, _)
(* query(posts, orderBy('createdAt', 'desc')): post ids grow with createdAt *)
RecentFirst(ps, n) ==
    IF n = 0 THEN <<>>
    ELSE (IF ps[n].exists
          THEN <<[id |-> n, userId |-> ps[n].userId, likes |-> ps[n].likes,
                  userLocation |-> ps[n].userLocation,
                  userSportRatings |-> ps[n].userSportRatings]>>
          ELSE <<>>) \o RecentFirst(ps, n - 1)

(* currentUserProfile.location || Object.keys(sportRatings || {}).length > 0 *)
hasSignal(profile) == profile.location # NoLocation \/ profile.sportRatings # {}

(* What a generateRecommendations call closes over *)
Call(h) == [recentPosts |-> h.recentPosts, currentUserProfile |-> h.currentUserProfile]

(* What a shown list was made from: the call, and the user documents that   *)
(* were in the store when it was made.                                      *)
From(call, us) == [recentPosts |-> call.recentPosts,
                   currentUserProfile |-> call.currentUserProfile, users |-> us]

(* Calls that may wait for their getDocs at the same time *)
MaxCalls == 2

(* The recommendation effect, run after recentPosts or currentUserProfile   *)
(* has changed: it starts generateRecommendations or sets the list itself.  *)
Effect(h) ==
    IF Len(h.recentPosts) > 0 /\ hasSignal(h.currentUserProfile)
    THEN [h EXCEPT !.calls = Append(@, Call(h))]
    ELSE [h EXCEPT !.posts = unranked(excludeOwn(h.recentPosts, h.uid)),
                   !.via = "effect", !.from = From(Call(h), users)]

(* Where the post with this id stands in a list of posts *)
Position(list, id) == CHOOSE j \in 1..Len(list) : list[j].id = id

(* The list on screen holds the post *)
InFeed(h, p) == \E i \in 1..Len(h.posts) : h.posts[i].id = p

(* The post objects of the new list are not the ones the cards were given   *)
(* before: ranking copies every post, the effect and the catch block pass   *)
(* on the objects of the snapshot they filter.                              *)
propChanged(h, new) ==
    \/ h.via \in {"none", "ranked"}
    \/ new.via = "ranked"
    \/ h.from.recentPosts # new.from.recentPosts

(* The step has called setPosts: a waiting call has settled or the effect   *)
(* has set the list itself.                                                 *)
setPostsCalled(h, new) == new.calls = h.calls \/ Len(new.calls) < Len(h.calls)

(* The cards of the viewer after setPosts: a card that appears starts from  *)
(* its prop and attaches its listener, and a card whose prop has changed    *)
(* runs setCurrentPost(post).                                               *)
syncCards(h, new) ==
    [currentPost EXCEPT ![h.uid] =
        [p \in DOMAIN @ |->
            IF ~InFeed(new, p) \/ ~setPostsCalled(h, new)
            THEN @[p]
            ELSE LET post == new.posts[Position(new.posts, p)] IN
                 IF ~InFeed(h, p) THEN [likes |-> post.likes, seen |-> 0]
                 ELSE IF propChanged(h, new) THEN [@[p] EXCEPT !.likes = post.likes]
                 ELSE @[p]]]

(* onSnapshot of the viewer's user document in HomeScreen *)
HomeUserSnapshot ==
    LET d == users[home.uid]
        profile == [location |-> d.location, sportRatings |-> d.sportRatings]
    IN
    /\ d.exists
    /\ home.currentUserProfile # profile
    /\ Len(Effect([home EXCEPT !.currentUserProfile = profile]).calls) <= MaxCalls
    /\ home' = Effect([home EXCEPT !.currentUserProfile = profile])
    /\ currentPost' = syncCards(home, Effect([home EXCEPT !.currentUserProfile = profile]))
    /\ UNCHANGED <<auth, users, posts, tx, result, save, currentUserProfile,
                   budget, saves, comments, cm, newComment, settings>>

(* onSnapshot of the posts query in HomeScreen *)
HomePostsSnapshot ==
    LET allPosts == RecentFirst(posts, Cardinality(PostIds)) IN
    /\ home.recentPosts # allPosts
    /\ Len(Effect([home EXCEPT !.recentPosts = allPosts]).calls) <= MaxCalls
    /\ home' = Effect([home EXCEPT !.recentPosts = allPosts])
    /\ currentPost' = syncCards(home, Effect([home EXCEPT !.recentPosts = allPosts]))
    /\ UNCHANGED <<auth, users, posts, tx, result, save, currentUserProfile,
                   budget, saves, comments, cm, newComment, settings>>

(* Pull to refresh: generateRecommendations is called whatever the profile  *)
onRefresh ==
    /\ Len(home.calls) < MaxCalls
    /\ budget > 0
    /\ budget' = budget - 1
    /\ home' = [home EXCEPT !.calls = Append(@, Call(home))]
    /\ UNCHANGED <<auth, users, posts, tx, result, save, currentUserProfile, currentPost,
                   saves, comments, cm, newComment, settings>>

(* Variant: the whole list is taken.                                        *)
sliceAll(list, end) == list

(* Array.prototype.slice(0, end) *)
slice(list, end) == SubSeq(list, 1, IF Len(list) < end THEN Len(list) ELSE end)

RemoveAt(list, i) == SubSeq(list, 1, i - 1) \o SubSeq(list, i + 1, Len(list))

(* getDocs of a pending call resolves: the posts it closed over are scored  *)
(* against the user documents just read, sorted and shown.                  *)
generateRecommendations(i) ==
    LET call == home.calls[i]
        scored == scoredPosts(call.recentPosts, call.currentUserProfile, home.uid, users)
    IN
    /\ i \in 1..Len(home.calls)
    /\ home' = [home EXCEPT !.calls = RemoveAt(@, i),
                            !.recommendedPosts = slice(scored, 20),
                            !.posts = scored,
                            !.via = "ranked", !.from = From(call, users)]
    /\ currentPost' = syncCards(home, home')
    /\ UNCHANGED <<auth, users, posts, tx, result, save, currentUserProfile,
                   budget, saves, comments, cm, newComment, settings>>

(* getDocs of a pending call rejects: the catch block shows the posts the   *)
(* call closed over, own posts left out.                                    *)
generateRecommendationsCatch(i) ==
    /\ i \in 1..Len(home.calls)
    /\ home' = [home EXCEPT !.calls = RemoveAt(@, i),
                            !.posts = caughtPosts(home, home.calls[i]),
                            !.via = "catch", !.from = From(home.calls[i], users)]
    /\ currentPost' = syncCards(home, home')
    /\ UNCHANGED <<auth, users, posts, tx, result, save, currentUserProfile,
                   budget, saves, comments, cm, newComment, settings>>

(* -------------------------------------------------------------- listeners *)
(* onSnapshot of the viewer's own user document in UserProfileScreen        *)
CurrentUserSnapshot(a) ==
    /\ Authed(a)
    /\ users[a].exists
    /\ currentUserProfile[a] # users[a].following
    /\ currentUserProfile' = [currentUserProfile EXCEPT ![a] = users[a].following]
    /\ UNCHANGED <<auth, users, posts, tx, result, save, currentPost, budget, saves,
                   comments, cm, newComment, settings, home>>

(* onSnapshot of the post document in PostCard                              *)
PostSnapshot(a, p) ==
    /\ Authed(a)
    /\ posts[p].exists
    /\ currentPost[a][p].seen # posts[p].ver
    /\ currentPost' = [currentPost EXCEPT ![a][p] = Card(posts[p])]
    /\ UNCHANGED <<auth, users, posts, tx, result, save, currentUserProfile,
                   budget, saves,
                   comments, cm, newComment, settings, home>>

(* ------------------------------------------------------- specifications *)
TxSteps(a) ==
    \/ FollowGetCurrent(a)
    \/ FollowGetTarget(a)
    \/ FollowCommit(a)
    \/ LikeGetPost(a)
    \/ LikeGetUser(a)
    \/ LikeCommit(a)

Next ==
    \/ \E a \in Users : SignUpCreate(a)
    \/ \E a \in Users : SignUpSetDoc(a)
    \/ \E a \in Users : createPost(a)
    \/ \E a \in Users : \E t \in Users : handleFollow(a, t)
    \/ \E a \in Users : FollowGetCurrent(a)
    \/ \E a \in Users : FollowGetTarget(a)
    \/ \E a \in Users : FollowCommit(a)
    \/ \E a \in Users : \E p \in PostIds : toggleLike(a, p)
    \/ \E a \in Users : LikeGetPost(a)
    \/ \E a \in Users : LikeGetUser(a)
    \/ \E a \in Users : LikeCommit(a)
    \/ \E a \in Users : handleSave(a)
    \/ \E a \in Users : SaveSetDoc(a)

Spec == Init /\ [][Next]_vars

(* N users have pressed the heart of the same fresh post at the same time;  *)
(* in the largest group every transaction has made its first read of the    *)
(* post before any has committed.                                           *)
InitLikes ==
    \E n \in 2..NumLikers :
        /\ auth = [u \in 1..n |-> "in"]
        /\ users = [u \in 1..n |-> DefaultUser(1)]
        /\ posts = [p \in 1..1 |-> NewPost(1)]
        /\ tx = [u \in 1..n |-> [NoTx EXCEPT !.kind = "like", !.target = 1,
                                             !.attempt = 1,
                                             !.pc = IF n < NumLikers THEN "get1" ELSE "get2",
                                             !.snapP = IF n < NumLikers THEN NoPost
                                                       ELSE NewPost(1)]]
        /\ result = [u \in 1..n |-> NoResult]
        /\ save = [u \in 1..n |-> "idle"]
        /\ currentUserProfile = [u \in 1..n |-> <<>>]
        /\ currentPost = [u \in 1..n |-> [p \in 1..1 |-> Card(NoPost)]]
        /\ budget = 0
        /\ saves = 0
        /\ comments = [p \in 1..1 |-> <<>>]
        /\ cm = [u \in 1..n |-> NoCm]
        /\ newComment = [u \in 1..n |-> <<>>]
        /\ settings = [u \in 1..n |-> NoSettings]
        /\ home = NoHome(1)

NextLikes ==
    \/ \E a \in Users : LikeGetPost(a)
    \/ \E a \in Users : LikeGetUser(a)
    \/ \E a \in Users : LikeCommit(a)

SpecLikes == InitLikes /\ [][NextLikes]_vars

(* Registered users, one stored post, and settings saves as the concurrent   *)
(* writers a toggle contends with; every started request gets its answer.   *)
InitContend ==
    /\ auth = [u \in 1..NumUsers |-> "in"]
    /\ users = [u \in 1..NumUsers |-> DefaultUser(1)]
    /\ posts = [p \in 1..1 |-> NewPost(1)]
    /\ tx = [u \in 1..NumUsers |-> NoTx]
    /\ result = [u \in 1..NumUsers |-> NoResult]
    /\ save = [u \in 1..NumUsers |-> "idle"]
    /\ currentUserProfile = [u \in 1..NumUsers |-> <<>>]
    /\ currentPost = [u \in 1..NumUsers |-> [p \in 1..1 |-> Card(NoPost)]]
    /\ budget = ContendOps
    /\ saves = MaxAttempts
    /\ comments = [p \in 1..1 |-> <<>>]
    /\ cm = [u \in 1..NumUsers |-> NoCm]
    /\ newComment = [u \in 1..NumUsers |-> <<>>]
    /\ settings = [u \in 1..NumUsers |-> NoSettings]
    /\ home = NoHome(1)

NextContend ==
    \/ \E a \in Users : \E t \in Users : handleFollow(a, t)
    \/ \E a \in Users : FollowGetCurrent(a)
    \/ \E a \in Users : FollowGetTarget(a)
    \/ \E a \in Users : FollowCommit(a)
    \/ \E a \in Users : \E p \in PostIds : toggleLike(a, p)
    \/ \E a \in Users : LikeGetPost(a)
    \/ \E a \in Users : LikeGetUser(a)
    \/ \E a \in Users : LikeCommit(a)
    \/ \E a \in Users : handleSave(a)

FairContend ==
    /\ InitContend
    /\ [][NextContend]_vars
    /\ \A a \in 1..NumUsers : WF_vars(TxSteps(a))

(* Registered users browsing one stored post and each other's profiles,     *)
(* with the screens' snapshot listeners delivering at any time.             *)
InitUI ==
    /\ auth = [u \in 1..NumUsers |-> "in"]
    /\ users = [u \in 1..NumUsers |-> DefaultUser(1)]
    /\ posts = [p \in 1..1 |-> NewPost(1)]
    /\ tx = [u \in 1..NumUsers |-> NoTx]
    /\ result = [u \in 1..NumUsers |-> NoResult]
    /\ save = [u \in 1..NumUsers |-> "idle"]
    /\ currentUserProfile = [u \in 1..NumUsers |-> <<>>]
    /\ currentPost = [u \in 1..NumUsers |-> [p \in 1..1 |-> Card(NewPost(1))]]
    /\ budget = MaxOps
    /\ saves = 0
    /\ comments = [p \in 1..1 |-> <<>>]
    /\ cm = [u \in 1..NumUsers |-> NoCm]
    /\ newComment = [u \in 1..NumUsers |-> <<>>]
    /\ settings = [u \in 1..NumUsers |-> NoSettings]
    /\ home = NoHome(1)

NextUI ==
    \/ \E a \in Users : \E t \in Users : handleFollow(a, t)
    \/ \E a \in Users : FollowGetCurrent(a)
    \/ \E a \in Users : FollowGetTarget(a)
    \/ \E a \in Users : FollowCommit(a)
    \/ \E a \in Users : \E p \in PostIds : toggleLike(a, p)
    \/ \E a \in Users : LikeGetPost(a)
    \/ \E a \in Users : LikeGetUser(a)
    \/ \E a \in Users : LikeCommit(a)
    \/ \E a \in Users : CurrentUserSnapshot(a)
    \/ \E a \in Users : \E p \in PostIds : PostSnapshot(a, p)

SpecUI == InitUI /\ [][NextUI]_vars

(* Registered users in front of two cards, one of a stored post and one    *)
(* whose post is not in the store, liking and commenting.                   *)
InitComments ==
    /\ auth = [u \in 1..NumUsers |-> "in"]
    /\ users = [u \in 1..NumUsers |-> DefaultUser(1)]
    /\ posts = [p \in 1..(NumPosts + 1) |-> IF p <= NumPosts THEN NewPost(1) ELSE NoPost]
    /\ tx = [u \in 1..NumUsers |-> NoTx]
    /\ result = [u \in 1..NumUsers |-> NoResult]
    /\ save = [u \in 1..NumUsers |-> "idle"]
    /\ currentUserProfile = [u \in 1..NumUsers |-> <<>>]
    /\ currentPost = [u \in 1..NumUsers |-> [p \in 1..(NumPosts + 1) |-> Card(NoPost)]]
    /\ budget = MaxOps
    /\ saves = 0
    /\ comments = [p \in 1..(NumPosts + 1) |-> <<>>]
    /\ cm = [u \in 1..NumUsers |-> NoCm]
    /\ newComment = [u \in 1..NumUsers |-> <<>>]
    /\ settings = [u \in 1..NumUsers |-> NoSettings]
    /\ home = NoHome(1)

NextComments ==
    \/ \E a \in Users : \E text \in Texts : setNewComment(a, text)
    \/ \E a \in Users : \E p \in PostIds : addComment(a, p)
    \/ \E a \in Users : CommentGetPost(a)
    \/ \E a \in Users : CommentCommit(a)
    \/ \E a \in Users : \E p \in PostIds : toggleLike(a, p)
    \/ \E a \in Users : LikeGetPost(a)
    \/ \E a \in Users : LikeGetUser(a)
    \/ \E a \in Users : LikeCommit(a)

SpecComments == InitComments /\ [][NextComments]_vars

(* N users have each typed a comment on the same fresh post and send it    *)
(* at the same time: the comments of the first k are stored and their       *)
(* counter transactions are starting, the others are about to send.         *)
InitBurst ==
    \E n \in 2..NumLikers : \E k \in (n - 2)..n :
        /\ auth = [u \in 1..n |-> "in"]
        /\ users = [u \in 1..n |-> DefaultUser(1)]
        /\ posts = [p \in 1..1 |-> NewPost(1)]
        /\ tx = [u \in 1..n |-> NoTx]
        /\ result = [u \in 1..n |-> NoResult]
        /\ save = [u \in 1..n |-> "idle"]
        /\ currentUserProfile = [u \in 1..n |-> <<>>]
        /\ currentPost = [u \in 1..n |-> [p \in 1..1 |-> Card(NoPost)]]
        /\ budget = n - k
        /\ saves = 0
        /\ comments = [p \in 1..1 |-> [u \in 1..k |-> [text |-> <<"a">>, userId |-> u]]]
        /\ cm = [u \in 1..n |-> IF u <= k
                                 THEN [NoCm EXCEPT !.pc = "get1", !.target = 1, !.attempt = 1]
                                 ELSE NoCm]
        /\ newComment = [u \in 1..n |-> <<"a">>]
        /\ settings = [u \in 1..n |-> NoSettings]
        /\ home = NoHome(1)

NextBurst ==
    \/ \E a \in Users : \E p \in PostIds : addComment(a, p)
    \/ \E a \in Users : CommentGetPost(a)
    \/ \E a \in Users : CommentCommit(a)

SpecBurst == InitBurst /\ [][NextBurst]_vars

(* What the user document of the viewer can hold: no location and no        *)
(* ratings, a ratings object with nothing but the location the settings     *)
(* screen keeps in it, a location alone, ratings alone, or both.            *)
ViewerProfiles ==
    {[location |-> NoLocation, sportRatings |-> {}],
     [location |-> NoLocation, sportRatings |-> {<<"location", 5>>}],
     [location |-> NoLocation, sportRatings |-> {<<"tennis", 3>>}],
     [location |-> 0, sportRatings |-> {}],
     [location |-> 0, sportRatings |-> {<<"tennis", 3>>}],
     [location |-> 60, sportRatings |-> {<<"tennis", 5>>, <<"golf", 2>>}]}

(* What the user documents of the authors hold, one author for each *)
AuthorProfiles ==
    <<[location |-> NoLocation, sportRatings |-> {}],
      [location |-> 5, sportRatings |-> {<<"tennis", 3>>}],
      [location |-> 60, sportRatings |-> {<<"tennis", 5>>, <<"golf", 2>>}]>>

(* A post written by the web client, which stores its author's location and *)
(* ratings with the post.                                                   *)
WebPost(userId) == [NewPost(userId) EXCEPT !.userLocation = 0,
                                           !.userSportRatings = {<<"golf", 4>>}]

(* The viewer opens the home screen; the other users are authors with       *)
(* stored profiles, and the posts collection is empty or holds a web post.  *)
InitFeed ==
    LET n == 1 + Len(AuthorProfiles) IN
    \E viewer \in ViewerProfiles : \E first \in {NoPost, WebPost(2)} :
        /\ auth = [u \in 1..n |-> "in"]
        /\ users = [u \in 1..n |->
                      IF u = 1
                      THEN [DefaultUser(1) EXCEPT !.location = viewer.location,
                                                  !.sportRatings = viewer.sportRatings]
                      ELSE [DefaultUser(1) EXCEPT
                              !.location = AuthorProfiles[u - 1].location,
                              !.sportRatings = AuthorProfiles[u - 1].sportRatings]]
        /\ posts = [p \in 1..(NumPosts + 2) |-> IF p = 1 THEN first ELSE NoPost]
        /\ tx = [u \in 1..n |-> NoTx]
        /\ result = [u \in 1..n |-> NoResult]
        /\ save = [u \in 1..n |-> "idle"]
        /\ currentUserProfile = [u \in 1..n |-> <<>>]
        /\ currentPost = [u \in 1..n |-> [p \in 1..(NumPosts + 2) |-> Card(NoPost)]]
        /\ budget = MaxOps - 1
        /\ saves = 0
        /\ comments = [p \in 1..(NumPosts + 2) |-> <<>>]
        /\ cm = [u \in 1..n |-> NoCm]
        /\ newComment = [u \in 1..n |-> <<>>]
        /\ settings = [u \in 1..n |-> NoSettings]
        /\ home = NoHome(1)

NextFeed ==
    \/ \E a \in Users : createPost(a)
    \/ SettingsSnapshot(home.uid)
    \/ \E sport \in Sports : \E value \in RatingInputs :
          handleSportRatingChange(home.uid, sport, value)
    \/ handleSave(home.uid)
    \/ HomeUserSnapshot
    \/ HomePostsSnapshot
    \/ onRefresh
    \/ \E i \in 1..MaxCalls : generateRecommendations(i)
    \/ \E i \in 1..MaxCalls : generateRecommendationsCatch(i)

SpecFeed == InitFeed /\ [][NextFeed]_vars

(* Places, in km from the viewer's, on both sides of every step of the      *)
(* location scale and beyond its cap                                        *)
Kms == {0, 5, 10, 11, 50, 60, 200, 201, 600, 700, 800}

(* Ratings objects as the settings screen stores them: a rating is any      *)
(* number from 0 up.                                                        *)
RatingObjects ==
    {{}, {<<"tennis", 3>>}, {<<"tennis", 0>>, <<"golf", 2>>},
     {<<"tennis", 5>>, <<"golf", 4>>}}

(* The viewer opens the home screen with the posts of two authors stored,   *)
(* the older one by user 2 and the newer one by user 3; the viewer is at    *)
(* km 0 or has no location, and the authors are anywhere.                   *)
InitRank ==
    \E viewerLocation \in {NoLocation, 0} : \E viewerRatings \in RatingObjects :
    \E location2 \in Kms \cup {NoLocation} : \E location3 \in Kms \cup {NoLocation} :
    \E ratings2 \in RatingObjects : \E ratings3 \in RatingObjects :
        /\ auth = [u \in 1..3 |-> "in"]
        /\ users = [u \in 1..3 |->
                      [DefaultUser(1) EXCEPT
                          !.location = IF u = 1 THEN viewerLocation
                                       ELSE IF u = 2 THEN location2 ELSE location3,
                          !.sportRatings = IF u = 1 THEN viewerRatings
                                           ELSE IF u = 2 THEN ratings2 ELSE ratings3]]
        /\ posts = [p \in 1..2 |-> NewPost(p + 1)]
        /\ tx = [u \in 1..3 |-> NoTx]
        /\ result = [u \in 1..3 |-> NoResult]
        /\ save = [u \in 1..3 |-> "idle"]
        /\ currentUserProfile = [u \in 1..3 |-> <<>>]
        /\ currentPost = [u \in 1..3 |-> [p \in 1..2 |-> Card(NoPost)]]
        /\ budget = 0
        /\ saves = 0
        /\ comments = [p \in 1..2 |-> <<>>]
        /\ cm = [u \in 1..3 |-> NoCm]
        /\ newComment = [u \in 1..3 |-> <<>>]
        /\ settings = [u \in 1..3 |-> NoSettings]
        /\ home = NoHome(1)

NextRank ==
    \/ HomeUserSnapshot
    \/ HomePostsSnapshot
    \/ \E i \in 1..MaxCalls : generateRecommendations(i)

SpecRank == InitRank /\ [][NextRank]_vars

(* The viewer opens the home screen with 19 to 23 posts stored: the oldest  *)
(* is the viewer's own, the others are by two authors in turn.              *)
InitSlice ==
    \E viewer \in ViewerProfiles : \E n \in 19..23 :
        /\ auth = [u \in 1..3 |-> "in"]
        /\ users = [u \in 1..3 |->
                      IF u = 1
                      THEN [DefaultUser(1) EXCEPT !.location = viewer.location,
                                                  !.sportRatings = viewer.sportRatings]
                      ELSE [DefaultUser(1) EXCEPT
                              !.location = AuthorProfiles[u].location,
                              !.sportRatings = AuthorProfiles[u].sportRatings]]
        /\ posts = [p \in 1..n |-> NewPost(IF p = 1 THEN 1 ELSE 2 + (p % 2))]
        /\ tx = [u \in 1..3 |-> NoTx]
        /\ result = [u \in 1..3 |-> NoResult]
        /\ save = [u \in 1..3 |-> "idle"]
        /\ currentUserProfile = [u \in 1..3 |-> <<>>]
        /\ currentPost = [u \in 1..3 |-> [p \in 1..n |-> Card(NoPost)]]
        /\ budget = 1
        /\ saves = 0
        /\ comments = [p \in 1..n |-> <<>>]
        /\ cm = [u \in 1..3 |-> NoCm]
        /\ newComment = [u \in 1..3 |-> <<>>]
        /\ settings = [u \in 1..3 |-> NoSettings]
        /\ home = NoHome(1)

NextSlice ==
    \/ HomeUserSnapshot
    \/ HomePostsSnapshot
    \/ onRefresh
    \/ \E i \in 1..MaxCalls : generateRecommendations(i)
    \/ \E i \in 1..MaxCalls : generateRecommendationsCatch(i)

SpecSlice == InitSlice /\ [][NextSlice]_vars

(* The viewer opens the home screen with the posts of user 2 stored; the    *)
(* other users like and unlike them while the screen's listeners, its       *)
(* ranking calls and the listeners of its cards deliver at any time.        *)
InitCard ==
    \E viewer \in {NoProfile, [location |-> NoLocation, sportRatings |-> {<<"tennis", 3>>}]} :
        /\ auth = [u \in 1..NumUsers |-> "in"]
        /\ users = [u \in 1..NumUsers |->
                      IF u = 1
                      THEN [DefaultUser(1) EXCEPT !.location = viewer.location,
                                                  !.sportRatings = viewer.sportRatings]
                      ELSE DefaultUser(1)]
        /\ posts = [p \in 1..NumPosts |-> NewPost(2)]
        /\ tx = [u \in 1..NumUsers |-> NoTx]
        /\ result = [u \in 1..NumUsers |-> NoResult]
        /\ save = [u \in 1..NumUsers |-> "idle"]
        /\ currentUserProfile = [u \in 1..NumUsers |-> <<>>]
        /\ currentPost = [u \in 1..NumUsers |-> [p \in 1..NumPosts |-> Card(NoPost)]]
        /\ budget = MaxOps - 1
        /\ saves = 0
        /\ comments = [p \in 1..NumPosts |-> <<>>]
        /\ cm = [u \in 1..NumUsers |-> NoCm]
        /\ newComment = [u \in 1..NumUsers |-> <<>>]
        /\ settings = [u \in 1..NumUsers |-> NoSettings]
        /\ home = NoHome(1)

NextCard ==
    \/ \E a \in Users \ {home.uid} : \E p \in PostIds : toggleLike(a, p)
    \/ \E a \in Users : LikeGetPost(a)
    \/ \E a \in Users : LikeGetUser(a)
    \/ \E a \in Users : LikeCommit(a)
    \/ HomeUserSnapshot
    \/ HomePostsSnapshot
    \/ onRefresh
    \/ \E i \in 1..MaxCalls : generateRecommendations(i)
    \/ \E i \in 1..MaxCalls : generateRecommendationsCatch(i)
    \/ \E p \in PostIds : PostSnapshot(home.uid, p)

SpecCard == InitCard /\ [][NextCard]_vars

(* The documents a toggle reads and writes: the two user documents of a    *)
(* follow, the post and the actor's user document of a like.                *)
TouchedDocs(a, kind, target) ==
    IF kind = "follow" THEN {<<"users", a>>, <<"users", target>>}
    ELSE {<<"posts", target>>, <<"users", a>>}

(* The toggles a registered user can press on a stored target *)
Toggles(a, n) ==
    {[kind |-> "follow", target |-> t] : t \in (1..n) \ {a}}
       \cup {[kind |-> "like", target |-> p] : p \in 1..NumPosts}

(* Two users have pressed toggles that share no document, at the same time. *)
InitDisjoint ==
    LET n == NumUsers + 2 IN
    \E a \in 1..n : \E c \in (1..n) \ {a} :
      \E ta \in Toggles(a, n) : \E tc \in Toggles(c, n) :
        /\ TouchedDocs(a, ta.kind, ta.target) \cap TouchedDocs(c, tc.kind, tc.target) = {}
        /\ auth = [u \in 1..n |-> "in"]
        /\ users = [u \in 1..n |-> DefaultUser(1)]
        /\ posts = [p \in 1..NumPosts |-> NewPost(p)]
        /\ tx = [u \in 1..n |->
                   IF u = a THEN [NoTx EXCEPT !.kind = ta.kind, !.target = ta.target,
                                              !.pc = "get1", !.attempt = 1]
                   ELSE IF u = c THEN [NoTx EXCEPT !.kind = tc.kind, !.target = tc.target,
                                                   !.pc = "get1", !.attempt = 1]
                   ELSE NoTx]
        /\ result = [u \in 1..n |-> NoResult]
        /\ save = [u \in 1..n |-> "idle"]
        /\ currentUserProfile = [u \in 1..n |-> <<>>]
        /\ currentPost = [u \in 1..n |-> [p \in 1..NumPosts |-> Card(NoPost)]]
        /\ budget = 0
        /\ saves = 0
        /\ comments = [p \in 1..NumPosts |-> <<>>]
        /\ cm = [u \in 1..n |-> NoCm]
        /\ newComment = [u \in 1..n |-> <<>>]
        /\ settings = [u \in 1..n |-> NoSettings]
        /\ home = NoHome(1)

NextDisjoint ==
    \/ \E a \in Users : FollowGetCurrent(a)
    \/ \E a \in Users : FollowGetTarget(a)
    \/ \E a \in Users : FollowCommit(a)
    \/ \E a \in Users : LikeGetPost(a)
    \/ \E a \in Users : LikeGetUser(a)
    \/ \E a \in Users : LikeCommit(a)

SpecDisjoint == InitDisjoint /\ [][NextDisjoint]_vars

(* ---------------------------------------------------------------- claims *)
(* C1: for all users A and B, A is in B.followers exactly when B is in      *)
(* A.following, in every state between transactions.                        *)
C1_FollowSymmetry ==
    \A a \in Users : \A b \in Users :
        Includes(users[b].followers, a) <=> Includes(users[a].following, b)

(* C2: every user's followersCount and followingCount equal the number of   *)
(* distinct members of followers and of following.                          *)
C2_CountsMatch ==
    \A u \in Users :
        /\ users[u].followersCount = Cardinality(Elems(users[u].followers))
        /\ users[u].followingCount = Cardinality(Elems(users[u].following))

(* C3: every post's likeCount equals the number of distinct members of its  *)
(* likes, from creation through every interleaving of like toggles.         *)
C3_LikeCountMatches ==
    \A p \in PostIds : posts[p].likeCount = Cardinality(Elems(posts[p].likes))

C3_Witness ==
    \E p \in PostIds : posts[p].likeCount = 2 /\ posts[p].ver >= 3

(* C4: a user is in a post's likes exactly when the post is in the user's   *)
(* likedPosts, in every state between transactions.                         *)
C4_LikeSymmetry ==
    \A u \in Users : \A p \in PostIds :
        Includes(posts[p].likes, u) <=> Includes(users[u].likedPosts, p)

LikesDone == \A a \in Users : tx[a].pc = "idle"

Succeeded == {a \in Users : result[a].out = "ok"}

(* C5 as stated: when N concurrent likes of one fresh post by N distinct    *)
(* users have all ended, all of them succeeded and likeCount is N with      *)
(* likes holding exactly the N users.                                       *)
C5_AllLikesSucceed ==
    LikesDone =>
        /\ Succeeded = Users
        /\ posts[1].likeCount = Cardinality(Users)
        /\ Elems(posts[1].likes) = Users

(* C5 amended: when the N concurrent likes have all ended, likes holds      *)
(* exactly the users whose call succeeded and likeCount is their number;    *)
(* every call has either succeeded or been rejected after MaxAttempts       *)
(* conflicts, and all N succeed whenever N is at most MaxAttempts.          *)
C5_LikesCounted ==
    LikesDone =>
        /\ Elems(posts[1].likes) = Succeeded
        /\ posts[1].likeCount = Cardinality(Succeeded)
        /\ Len(posts[1].likes) = Cardinality(Succeeded)
        /\ \A a \in Users : result[a].out \in {"ok", "conflict"}
        /\ Cardinality(Users) <= MaxAttempts => Succeeded = Users

C5_Witness ==
    /\ LikesDone
    /\ Cardinality(Users) = 3
    /\ Succeeded = Users
    /\ posts[1].likeCount = 3

ReadsCurrent(a) ==
    IF tx[a].kind = "follow"
    THEN users[a].ver = tx[a].snapA.ver /\ users[tx[a].target].ver = tx[a].snapB.ver
    ELSE posts[tx[a].target].ver = tx[a].snapP.ver /\ users[a].ver = tx[a].snapA.ver

(* C6: an attempt whose reads are still current commits both documents; one *)
(* whose reads were overwritten writes nothing and is run again with the    *)
(* attempt count one higher, until MaxAttempts attempts are used, when the  *)
(* toggle ends with a conflict; every started toggle ends.                  *)
C6_BoundedRetry ==
    /\ [](\A a \in Users : tx[a].attempt <= MaxAttempts)
    /\ [][\A a \in Users :
            (tx[a].pc = "commit" /\ tx'[a] # tx[a]) =>
               \/ /\ ReadsCurrent(a)
                  /\ tx'[a] = NoTx /\ result'[a].out = "ok"
                  /\ users'[a] # users[a]
                  /\ IF tx[a].kind = "follow"
                     THEN users'[tx[a].target] # users[tx[a].target]
                     ELSE posts'[tx[a].target] # posts[tx[a].target]
               \/ /\ ~ReadsCurrent(a)
                  /\ users' = users /\ posts' = posts
                  /\ tx[a].attempt < MaxAttempts
                  /\ tx'[a].pc = "get1" /\ tx'[a].attempt = tx[a].attempt + 1
                  /\ tx'[a].kind = tx[a].kind /\ tx'[a].target = tx[a].target
                  /\ result'[a] = result[a]
               \/ /\ ~ReadsCurrent(a)
                  /\ users' = users /\ posts' = posts
                  /\ tx[a].attempt = MaxAttempts
                  /\ tx'[a] = NoTx /\ result'[a].out = "conflict"]_vars
    /\ \A a \in 1..NumUsers : (tx[a].pc # "idle") ~> (tx[a].pc = "idle")

C6_Witness ==
    \E a \in Users : result[a].out = "conflict"

FollowLinkage(us, a, b) ==
    <<Includes(us[a].following, b), Includes(us[b].followers, a),
      us[a].followingCount, us[b].followersCount>>

LikeLinkage(us, ps, a, p) ==
    <<Includes(ps[p].likes, a), Includes(us[a].likedPosts, p), ps[p].likeCount>>

(* The store after one toggle that runs alone: it reads the stored documents *)
FollowOnce(us, a, b) == FollowWrites(us, a, b, us[a], us[b])

LikeOncePosts(us, ps, a, p) == LikeWritePost(ps, a, p, ps[p])

LikeOnceUsers(us, ps, a, p) == LikeWriteUser(us, a, p, ps[p], us[a])

(* C7: from every state, two follow toggles of the same pair run one after  *)
(* the other with nothing in between leave both memberships and both counts *)
(* as they were, and two like toggles leave likes, likedPosts membership    *)
(* and likeCount as they were.                                              *)
C7_ToggleTwiceRestores ==
    \A a \in Users : Authed(a) =>
        /\ \A b \in NavTargets(a) : users[b].exists =>
              FollowLinkage(FollowOnce(FollowOnce(users, a, b), a, b), a, b)
                 = FollowLinkage(users, a, b)
        /\ \A p \in PostIds : posts[p].exists =>
              LET us1 == LikeOnceUsers(users, posts, a, p)
                  ps1 == LikeOncePosts(users, posts, a, p)
              IN LikeLinkage(LikeOnceUsers(us1, ps1, a, p),
                             LikeOncePosts(us1, ps1, a, p), a, p)
                    = LikeLinkage(users, posts, a, p)

Committed(a) == tx[a].pc = "commit" /\ tx'[a] = NoTx /\ result'[a].out = "ok"

(* C8: a committed toggle writes the flip of the membership the store holds *)
(* at the commit, and the arrays it writes are the stored arrays with the   *)
(* one id removed or appended, whatever the screens hold.                   *)
C8_FlipsStoreState ==
    [][\A a \in Users : Committed(a) =>
          LET t == tx[a].target IN
          IF tx[a].kind = "follow"
          THEN LET was == Includes(users[a].following, t) IN
               /\ Includes(users'[a].following, t) = ~was
               /\ Includes(users'[t].followers, a) = ~was
               /\ users'[a].following = IF was THEN Without(users[a].following, t)
                                         ELSE Append(users[a].following, t)
               /\ users'[t].followers = IF was THEN Without(users[t].followers, a)
                                         ELSE Append(users[t].followers, a)
          ELSE LET was == Includes(posts[t].likes, a) IN
               /\ Includes(posts'[t].likes, a) = ~was
               /\ Includes(users'[a].likedPosts, t) = ~was
               /\ posts'[t].likes = IF was THEN Without(posts[t].likes, a)
                                    ELSE Append(posts[t].likes, a)
               /\ users'[a].likedPosts = IF was THEN Without(users[a].likedPosts, t)
                                         ELSE Append(users[a].likedPosts, t)]_vars

(* The button showed "Following" when pressed, the store held no edge, and   *)
(* the toggle committed a follow.                                            *)
C8_Witness ==
    \E a \in Users :
        /\ result[a].kind = "follow" /\ result[a].out = "ok"
        /\ result[a].shown
        /\ Includes(users[a].following, result[a].target)

(* C9: a follow toggle that finds no target document ends with not-found    *)
(* and writes nothing: no user document changes and none is created.        *)
C9_TargetNotFound ==
    [][\A a \in Users :
          (/\ tx[a].kind = "follow" /\ tx[a].pc = "get2" /\ tx'[a] # tx[a]
           /\ ~users[tx[a].target].exists)
          => /\ tx'[a] = NoTx
             /\ result'[a].out = "notfound"
             /\ users' = users /\ posts' = posts]_vars

C9_Witness ==
    \E a \in Users :
        /\ result[a].kind = "follow" /\ result[a].out = "notfound"
        /\ ~users[a].exists /\ ~users[result[a].target].exists

(* C10: a like toggle that read no post document ends with not-found and    *)
(* writes nothing: no post and no user document changes or is created.      *)
C10_PostNotFound ==
    [][\A a \in Users :
          (/\ tx[a].kind = "like" /\ tx[a].pc = "get2" /\ tx'[a] # tx[a]
           /\ ~tx[a].snapP.exists)
          => /\ tx'[a] = NoTx
             /\ result'[a].out = "notfound"
             /\ users' = users /\ posts' = posts]_vars

C10_Witness ==
    \E a \in Users :
        /\ result[a].kind = "like" /\ result[a].out = "notfound"
        /\ ~users[a].exists /\ ~posts[result[a].target].exists

(* C11: a toggle by an actor without a user document, on a stored target,   *)
(* is not refused; its commit creates the actor's document with zero counts *)
(* and empty arrays except for the new edge, and writes the edge on the     *)
(* target's side in the same step: following [target] with followingCount 1 *)
(* and the actor in the target's followers, or likedPosts [post] and the    *)
(* actor in the post's likes.                                               *)
C11_LazyCreation ==
    [][\A a \in Users :
          LET t == tx[a].target IN
          /\ (/\ tx[a].pc = "get2" /\ tx'[a] # tx[a] /\ ~users[a].exists
              /\ IF tx[a].kind = "follow" THEN users[t].exists ELSE tx[a].snapP.exists)
             => tx'[a].pc = "commit"
          /\ (Committed(a) /\ ~users[a].exists) =>
                IF tx[a].kind = "follow"
                THEN /\ users'[a] = [DefaultUser(1) EXCEPT !.following = <<t>>,
                                                           !.followingCount = 1]
                     /\ users[t].exists /\ users'[t].exists
                     /\ users'[t].followers = Append(users[t].followers, a)
                     /\ users'[t].followersCount = users[t].followersCount + 1
                     /\ ~Includes(users[t].followers, a)
                ELSE /\ users'[a] = [DefaultUser(1) EXCEPT !.likedPosts = <<t>>]
                     /\ posts[t].exists /\ posts'[t].exists
                     /\ posts'[t].likes = Append(posts[t].likes, a)
                     /\ posts'[t].likeCount = posts[t].likeCount + 1
                     /\ ~Includes(posts[t].likes, a)]_vars

(* A user whose signUp has not written the document yet has followed: the   *)
(* document was created by the toggle and both sides hold the edge.         *)
C11_Witness ==
    \E a \in Users :
        /\ auth[a] = "pending"
        /\ result[a].kind = "follow" /\ result[a].out = "ok"
        /\ users[a] = [DefaultUser(1) EXCEPT !.following = <<result[a].target>>,
                                             !.followingCount = 1]
        /\ Includes(users[result[a].target].followers, a)

BurstDone == budget = 0 /\ \A a \in Users : cm[a].pc = "idle"

Counted == {a \in Users : cm[a].out = "ok"}

C13_CommentPostNotFound ==
    [][\A a \in Users : \A p \in PostIds :
          ~posts[p].exists =>
             /\ comments'[p] = comments[p]
             /\ posts'[p] = posts[p]
             /\ (cm[a].target = p /\ cm[a].pc # "idle" /\ cm'[a].pc = "idle")
                   => cm'[a].out = "notfound"]_vars

(* C14: a text that trims to empty never starts addComment, so no comment   *)
(* is stored and no post changes; a step that stores a comment stores       *)
(* exactly one, carrying the trimmed text of its sender, and every stored   *)
(* comment's text is non-empty with no leading or trailing white space.     *)
C14_EmptyCommentRejected ==
    /\ [](\A p \in PostIds : \A i \in 1..Len(comments[p]) :
            LET text == comments[p][i].text IN
            /\ text # <<>>
            /\ ~IsSpace(text[1]) /\ ~IsSpace(text[Len(text)]))
    /\ [][/\ \A a \in Users :
              (cm[a].pc = "idle" /\ \A i \in 1..Len(newComment[a]) : IsSpace(newComment[a][i]))
                 => /\ cm'[a] = cm[a]
                    /\ \A p \in PostIds :
                          \A i \in 1..Len(comments'[p]) : comments'[p][i].userId = a
                             => i <= Len(comments[p])
          /\ comments' # comments =>
                /\ posts' = posts
                /\ \E a \in Users : \E p \in PostIds :
                      /\ cm[a].pc = "idle" /\ cm'[a].pc = "get1" /\ cm'[a].target = p
                      /\ Trim(newComment[a]) # <<>>
                      /\ comments' = [comments EXCEPT ![p] =
                            Append(@, [text |-> Trim(newComment[a]), userId |-> a])]]_vars

(* One user has sent " a", stored as "a" and not counted yet; another holds *)
(* a blank text and has no comment stored.                                  *)
C14_Witness ==
    \E a \in Users : \E b \in Users \ {a} : \E p \in PostIds :
        /\ newComment[a] = <<" ", "a">>
        /\ cm[a].pc = "get1" /\ cm[a].target = p
        /\ comments[p] = <<[text |-> <<"a">>, userId |-> a]>>
        /\ newComment[b] = <<" ">>
        /\ cm[b] = NoCm

(* C15: of two toggles running at the same time on disjoint documents,     *)
(* neither makes the other abort or run again: every commit step finds its  *)
(* reads current and commits, no toggle goes beyond its first attempt, and  *)
(* once both have ended both have succeeded.                                *)
C15_DisjointNeverContend ==
    /\ [](\A a \in Users : /\ tx[a].attempt <= 1
                            /\ result[a].out \in {"none", "ok"})
    /\ []((\A a \in Users : tx[a].pc = "idle") =>
            Cardinality({a \in Users : result[a].out = "ok"}) = 2)
    /\ [][\A a \in Users :
            (tx[a].pc = "commit" /\ tx'[a] # tx[a]) =>
                /\ ReadsCurrent(a)
                /\ tx'[a] = NoTx /\ result'[a].out = "ok"]_vars

(* A follow and a like on disjoint documents that both read before either  *)
(* committed have both committed.                                           *)
C15_Witness ==
    \E a \in Users : \E c \in Users :
        /\ result[a].kind = "follow" /\ result[a].out = "ok"
        /\ result[c].kind = "like" /\ result[c].out = "ok"
        /\ users[a].ver = 2 /\ users[c].ver = 2
        /\ Includes(users[a].following, result[a].target)
        /\ Includes(posts[result[c].target].likes, c)

FollowEdge(us, a, b) == <<Includes(us[a].following, b), Includes(us[b].followers, a)>>

LikeEdge(us, ps, a, p) == <<Includes(ps[p].likes, a), Includes(us[a].likedPosts, p)>>

(* What a committed toggle of a may change: for a follow of t, following    *)
(* and followingCount of a and followers and followersCount of t; for a     *)
(* like of t, likes and likeCount of the post and likedPosts of a. A user   *)
(* document that did not exist is created from the defaults.                *)
ToggleFrame(a) ==
    LET t == tx[a].target
        before == IF users[a].exists THEN users[a] ELSE DefaultUser(0)
    IN
    /\ comments' = comments
    /\ IF tx[a].kind = "follow"
       THEN /\ posts' = posts
            /\ \A u \in Users \ {a, t} : users'[u] = users[u]
            /\ users'[a] = [before EXCEPT !.ver = @ + 1,
                                          !.following = users'[a].following,
                                          !.followingCount = users'[a].followingCount]
            /\ users'[t] = [users[t] EXCEPT !.ver = @ + 1,
                                            !.followers = users'[t].followers,
                                            !.followersCount = users'[t].followersCount]
       ELSE /\ \A p \in PostIds \ {t} : posts'[p] = posts[p]
            /\ \A u \in Users \ {a} : users'[u] = users[u]
            /\ posts'[t] = [posts[t] EXCEPT !.ver = @ + 1,
                                            !.likes = posts'[t].likes,
                                            !.likeCount = posts'[t].likeCount]
            /\ users'[a] = [before EXCEPT !.ver = @ + 1,
                                          !.likedPosts = users'[a].likedPosts]

(* C16: the membership of a pair, on either side, changes only in the       *)
(* commit of that actor's own toggle of that target, and a committed toggle *)
(* changes nothing but its own pair's fields: every other field of the two  *)
(* documents and every other document stay as they were.                    *)
C16_OnlyOwnToggle ==
    [][/\ \A a \in Users : \A b \in Users :
             FollowEdge(users', a, b) # FollowEdge(users, a, b)
                => Committed(a) /\ tx[a].kind = "follow" /\ tx[a].target = b
       /\ \A a \in Users : \A p \in PostIds :
             LikeEdge(users', posts', a, p) # LikeEdge(users, posts, a, p)
                => Committed(a) /\ tx[a].kind = "like" /\ tx[a].target = p
       /\ \A a \in Users : Committed(a) => ToggleFrame(a)]_vars

(* The ids of the list on screen, in the order shown *)
FeedIds == [i \in 1..Len(home.posts) |-> home.posts[i].id]

RECURSIVE OthersIds(_, _)
(* The ids of the posts of list that uid did not write, in the list's order *)
OthersIds(list, uid) ==
    IF list = <<>> THEN <<>>
    ELSE (IF Head(list).userId # uid THEN <<Head(list).id>> ELSE <<>>)
            \o OthersIds(Tail(list), uid)

(* C17: whichever way the list on screen was made (ranking, the effect's    *)
(* own list, the catch block), it holds no post of the viewer, it holds     *)
(* every other post of the candidates it was made from and nothing else,    *)
(* and no post twice.                                                       *)
C17_FeedIsOthersPosts ==
    home.via # "none" =>
        LET feed == home.posts
            candidates == home.from.recentPosts
        IN
        /\ \A i \in 1..Len(feed) : feed[i].userId # home.uid
        /\ \A j \in 1..Len(candidates) :
              candidates[j].userId # home.uid =>
                  \E i \in 1..Len(feed) : feed[i].id = candidates[j].id
        /\ \A i \in 1..Len(feed) :
              \E j \in 1..Len(candidates) :
                  /\ candidates[j].id = feed[i].id
                  /\ candidates[j].userId = feed[i].userId
        /\ \A i \in 1..Len(feed) : \A k \in 1..Len(feed) :
              i # k => feed[i].id # feed[k].id

(* A ranked list of two posts made from candidates that hold a post of the  *)
(* viewer.                                                                  *)
C17_Witness ==
    /\ home.via = "ranked"
    /\ Len(home.posts) >= 2
    /\ \E j \in 1..Len(home.from.recentPosts) :
          home.from.recentPosts[j].userId = home.uid

(* C18: in a ranked list every post carries 0.7 * locationScore + 0.3 *     *)
(* ratingScore of its candidate, scored against the viewer's profile and    *)
(* the user documents read; the scores never fall along the list, and      *)
(* posts of equal score stand in the order of the candidates, newest first. *)
C18_RankedAscendingStable ==
    home.via = "ranked" =>
        LET feed == home.posts
            candidates == home.from.recentPosts
            profile == home.from.currentUserProfile
            us == home.from.users
        IN
        /\ \A i \in 1..Len(feed) :
              \E j \in 1..Len(candidates) :
                  /\ candidates[j].id = feed[i].id
                  /\ 10 * feed[i].score =
                        7 * locationScore(distance(profile, candidates[j], us))
                        + 3 * ratingScore(calculateSportRatingDifference(
                                  profile.sportRatings,
                                  postUserSportRatings(candidates[j], us)))
        /\ \A i \in 1..Len(feed) : \A k \in 1..Len(feed) :
              i < k =>
                  /\ feed[i].score <= feed[k].score
                  /\ feed[i].score = feed[k].score =>
                        /\ Position(candidates, feed[i].id) < Position(candidates, feed[k].id)
                        /\ feed[i].id > feed[k].id

(* A ranked list with two posts of equal score, two of different scores,    *)
(* and an older post in front of a newer one.                               *)
C18_Witness ==
    /\ home.via = "ranked"
    /\ \E i \in 1..Len(home.posts) : \E k \in 1..Len(home.posts) :
          i < k /\ home.posts[i].score = home.posts[k].score
    /\ \E i \in 1..Len(home.posts) : \E k \in 1..Len(home.posts) :
          i < k /\ home.posts[i].score < home.posts[k].score
    /\ \E i \in 1..Len(home.posts) : \E k \in 1..Len(home.posts) :
          i < k /\ home.posts[i].id < home.posts[k].id

(* The profile holds no location and no rating of a sport *)
NoSignals(profile) ==
    /\ profile.location = NoLocation
    /\ \A sport \in Sports : ~HasKey(profile.sportRatings, sport)

(* C19: a list made for a viewer whose profile holds no location and no     *)
(* sport rating shows the candidates the viewer did not write, newest       *)
(* first, whether the effect made it after a snapshot, or a pull to         *)
(* refresh ranked it, or the catch block made it.                           *)
C19_NoSignalRecency ==
    (home.via # "none" /\ NoSignals(home.from.currentUserProfile)) =>
        /\ FeedIds = OthersIds(home.from.recentPosts, home.uid)
        /\ \A i \in 1..Len(FeedIds) : \A k \in 1..Len(FeedIds) :
              i < k => FeedIds[i] > FeedIds[k]

(* A viewer without location and ratings has had two posts ranked whose     *)
(* authors are at different places.                                         *)
C19_Witness ==
    /\ home.via = "ranked"
    /\ NoSignals(home.from.currentUserProfile)
    /\ \E i \in 1..Len(home.from.recentPosts) : \E k \in 1..Len(home.from.recentPosts) :
          LET a == home.from.recentPosts[i]
              b == home.from.recentPosts[k]
          IN /\ a.userId # home.uid /\ b.userId # home.uid
             /\ postUserLocation(a, home.from.users) # NoLocation
             /\ postUserLocation(b, home.from.users) # NoLocation
             /\ postUserLocation(a, home.from.users) # postUserLocation(b, home.from.users)

(* C20: after a failed getDocs the list on screen is the candidates of the  *)
(* failed call without the viewer's posts, newest first and without scores; *)
(* it is not empty when such a candidate exists.                            *)
C20_CatchFallsBack ==
    home.via = "catch" =>
        /\ FeedIds = OthersIds(home.from.recentPosts, home.uid)
        /\ \A i \in 1..Len(home.posts) : home.posts[i].score = NoScore
        /\ (\E j \in 1..Len(home.from.recentPosts) :
                home.from.recentPosts[j].userId # home.uid) => home.posts # <<>>

(* getDocs failed after an earlier call had ranked an older post in front   *)
(* of a newer one: the list is back in the order of the candidates.         *)
C20_Witness ==
    /\ home.via = "catch"
    /\ Len(home.posts) >= 2
    /\ Len(home.recommendedPosts) >= 2
    /\ home.recommendedPosts[1].id < home.recommendedPosts[2].id
    /\ \E j \in 1..Len(home.from.recentPosts) :
          home.from.recentPosts[j].userId = home.uid

(* The candidate the feed entry was made from *)
CandidateOf(entry) ==
    home.from.recentPosts[Position(home.from.recentPosts, entry.id)]

(* The distance of the viewer of the shown list to the author of an entry *)
DistanceOf(entry) ==
    distance(home.from.currentUserProfile, CandidateOf(entry), home.from.users)

(* The rating difference of the viewer of the shown list and the author *)
RatingDifferenceOf(entry) ==
    calculateSportRatingDifference(
        home.from.currentUserProfile.sportRatings,
        postUserSportRatings(CandidateOf(entry), home.from.users))

(* The location score inside the score of a ranked entry, times 7 *)
LocationPart(entry) == 10 * entry.score - 3 * ratingScore(RatingDifferenceOf(entry))

(* The scale of claim C21 for a known distance *)
Piecewise(d) ==
    IF d <= 10 THEN 10 * d
    ELSE IF d <= 50 THEN 100 + 5 * (d - 10)
    ELSE IF d <= 200 THEN 300 + 2 * (d - 50)
    ELSE 600 + (IF d - 200 <= 400 THEN d - 200 ELSE 400)

(* C21: the location score that went into the score of a ranked post is     *)
(* the piecewise scale of its distance; an unknown distance scores 1000;    *)
(* the score lies in 0..1000, does not fall when the distance grows, and    *)
(* the pieces meet at 10, 50 and 200 km.                                    *)
C21_LocationScale ==
    home.via = "ranked" =>
        /\ \A i \in 1..Len(home.posts) :
              LET e == home.posts[i]
                  d == DistanceOf(e)
              IN /\ d # Infinity => LocationPart(e) = 7 * Piecewise(d) * Scale
                 /\ d = Infinity => LocationPart(e) = 7 * 1000 * Scale
                 /\ LocationPart(e) >= 0 /\ LocationPart(e) <= 7 * 1000 * Scale
                 /\ d = 10 => LocationPart(e) = 7 * (100 + 5 * (d - 10)) * Scale
                 /\ d = 50 => LocationPart(e) = 7 * (300 + 2 * (d - 50)) * Scale
                 /\ d = 200 => LocationPart(e) = 7 * (600 + (d - 200)) * Scale
        /\ \A i \in 1..Len(home.posts) : \A k \in 1..Len(home.posts) :
              LET di == DistanceOf(home.posts[i])
                  dk == DistanceOf(home.posts[k])
              IN (di # Infinity /\ (dk = Infinity \/ di <= dk)) =>
                    LocationPart(home.posts[i]) <= LocationPart(home.posts[k])

(* A ranked list with an author beyond the cap of the scale and an author   *)
(* without a location.                                                      *)
C21_Witness ==
    /\ home.via = "ranked"
    /\ Len(home.posts) = 2
    /\ \E i \in 1..2 : DistanceOf(home.posts[i]) = 700
    /\ \E i \in 1..2 : DistanceOf(home.posts[i]) = Infinity

(* The sports for which both ratings objects hold a number *)
RatedByBoth(userRatings, postUserRatings) ==
    {sport \in Sports : HasKey(userRatings, sport) /\ HasKey(postUserRatings, sport)}

(* The rating score inside the score of a ranked entry, times 3 *)
RatingPart(entry) == 10 * entry.score - 7 * locationScore(DistanceOf(entry))

(* C22: the rating score that went into the score of a ranked post is ten   *)
(* times the average of |viewer rating - author rating| over the sports for *)
(* which both hold a stored rating, whatever number is stored, and 100 when *)
(* there is no such sport.                                                  *)
C22_RatingAffinity ==
    home.via = "ranked" =>
        \A i \in 1..Len(home.posts) :
            LET e == home.posts[i]
                userRatings == home.from.currentUserProfile.sportRatings
                postUserRatings == postUserSportRatings(CandidateOf(e), home.from.users)
                both == RatedByBoth(userRatings, postUserRatings)
            IN IF both = {}
               THEN RatingPart(e) = 3 * 100 * Scale
               ELSE RatingPart(e) * Cardinality(both) =
                       3 * 10 * Scale * SumDiff(both, userRatings, postUserRatings)

(* Two entries of a list ranked for a viewer with a location, whose authors *)
(* hold the same ratings and are at known distances                         *)
Comparable(e, f) ==
    /\ home.from.currentUserProfile.location # NoLocation
    /\ postUserSportRatings(CandidateOf(e), home.from.users)
          = postUserSportRatings(CandidateOf(f), home.from.users)
    /\ DistanceOf(e) # Infinity /\ DistanceOf(f) # Infinity

(* C23 as stated: of two such entries the farther one never stands in       *)
(* front of the nearer one.                                                 *)
C23_NearerNeverBehind ==
    home.via = "ranked" =>
        \A i \in 1..Len(home.posts) : \A k \in 1..Len(home.posts) :
            (i < k /\ Comparable(home.posts[i], home.posts[k]))
                => DistanceOf(home.posts[i]) <= DistanceOf(home.posts[k])

(* C23 amended: the farther entry stands in front of the nearer one only    *)
(* when both distances have the same location score, which is the case      *)
(* from 600 km on, and it is then the newer post; whenever the location     *)
(* scores differ the nearer entry stands in front.                          *)
C23_NearerAheadUnlessTied ==
    home.via = "ranked" =>
        \A i \in 1..Len(home.posts) : \A k \in 1..Len(home.posts) :
            (/\ i < k /\ Comparable(home.posts[i], home.posts[k])
             /\ DistanceOf(home.posts[i]) > DistanceOf(home.posts[k]))
                => /\ Piecewise(DistanceOf(home.posts[i]))
                         = Piecewise(DistanceOf(home.posts[k]))
                   /\ DistanceOf(home.posts[k]) >= 600
                   /\ home.posts[i].id > home.posts[k].id

(* The older post of the author at 5 km stands in front of the newer post   *)
(* of the author at 60 km, who holds the same ratings.                      *)
C23_Witness ==
    /\ home.via = "ranked"
    /\ Len(home.posts) = 2
    /\ Comparable(home.posts[1], home.posts[2])
    /\ DistanceOf(home.posts[1]) = 5 /\ DistanceOf(home.posts[2]) = 60
    /\ home.posts[1].id < home.posts[2].id

(* C24: the recommended posts of a ranked list are its first 20 posts, or   *)
(* all of them when there are fewer, in the same order; the list itself     *)
(* holds every candidate the viewer did not write, however many.            *)
C24_RecommendedIsPrefix ==
    /\ home.via = "ranked" =>
          /\ Len(home.recommendedPosts)
                = (IF Len(home.posts) < 20 THEN Len(home.posts) ELSE 20)
          /\ \A i \in 1..Len(home.recommendedPosts) :
                home.recommendedPosts[i] = home.posts[i]
    /\ home.via # "none" =>
          Len(home.posts) = Len(OthersIds(home.from.recentPosts, home.uid))

(* A ranked list of more than 20 posts, with 20 recommended posts *)
C24_Witness ==
    /\ home.via = "ranked"
    /\ Len(home.posts) > 20
    /\ Len(home.recommendedPosts) = 20
    /\ \E i \in 1..20 : home.posts[i].score < home.posts[21].score

(* C25: when no generateRecommendations call is waiting for its getDocs,    *)
(* the list on screen was made from the posts snapshot and the viewer       *)
(* profile delivered last, in whatever order the calls have completed.      *)
C25_LatestSnapshotShown ==
    (home.calls = <<>> /\ home.via # "none") =>
        /\ home.from.recentPosts = home.recentPosts
        /\ home.from.currentUserProfile = home.currentUserProfile

(* C26: a step that is not the commit of a toggle (a settings save, its     *)
(* setDoc fallback, the setDoc of signUp) removes nothing from the          *)
(* followers, following and likedPosts of a user whose document exists and  *)
(* leaves that user's counts as they are.                                   *)
C26_OnlyLedgersMutate ==
    [][(\A a \in Users : ~Committed(a)) =>
          \A u \in Users : users[u].exists =>
              /\ Elems(users[u].followers) \subseteq Elems(users'[u].followers)
              /\ Elems(users[u].following) \subseteq Elems(users'[u].following)
              /\ Elems(users[u].likedPosts) \subseteq Elems(users'[u].likedPosts)
              /\ users'[u].followersCount = users[u].followersCount
              /\ users'[u].followingCount = users[u].followingCount]_vars

(* The array holds no id twice *)
NoDuplicates(array) == Cardinality(Elems(array)) = Len(array)

(* C27: no stored followers, following, likedPosts or likes array holds an  *)
(* id twice, so the length of each equals the number of its members.        *)
C27_ArraysAreSets ==
    /\ \A u \in Users : /\ NoDuplicates(users[u].followers)
                        /\ NoDuplicates(users[u].following)
                        /\ NoDuplicates(users[u].likedPosts)
    /\ \A p \in PostIds : NoDuplicates(posts[p].likes)

(* C28: no user is in their own following or followers, and no follow       *)
(* toggle runs with the actor as its target.                                *)
C28_NoSelfFollow ==
    \A a \in Users :
        /\ ~Includes(users[a].following, a)
        /\ ~Includes(users[a].followers, a)
        /\ tx[a].kind = "follow" => tx[a].target # a

(* The author of a stored post, whose own card leads to the Profile tab,    *)
(* has followed another user.                                               *)
C28_Witness ==
    \E a \in Users :
        /\ \E p \in PostIds : posts[p].exists /\ posts[p].userId = a
        /\ result[a].kind = "follow" /\ result[a].out = "ok"
        /\ users[a].following # <<>>

(* C29: whenever no addComment is under way, the commentCount of every      *)
(* stored post is the number of comments stored under it, also after an     *)
(* addComment that failed between its addDoc and its transaction.           *)
C29_CommentCountMatches ==
    (\A a \in Users : cm[a].pc = "idle") =>
        \A p \in PostIds : posts[p].exists => posts[p].commentCount = Len(comments[p])

(* Nothing is under way and every listener has delivered: no transaction    *)
(* and no generateRecommendations call is waiting, the home screen holds    *)
(* the posts and the viewer profile as stored, and the listener of every    *)
(* card on screen has delivered the stored version of its post.             *)
Quiet ==
    /\ \A a \in Users : tx[a].pc = "idle"
    /\ home.calls = <<>>
    /\ home.via # "none"
    /\ home.recentPosts = RecentFirst(posts, Cardinality(PostIds))
    /\ home.currentUserProfile = [location |-> users[home.uid].location,
                                  sportRatings |-> users[home.uid].sportRatings]
    /\ \A p \in PostIds : InFeed(home, p) => currentPost[home.uid][p].seen = posts[p].ver

(* C30: once updates have quiesced, every card on the home screen shows the *)
(* likes of its post as stored.                                             *)
C30_CardShowsStoredPost ==
    Quiet => \A p \in PostIds :
                InFeed(home, p) => currentPost[home.uid][p].likes = posts[p].likes

====
